---- MODULE Spec2Model ----
(***************************************************************************)
(* AgriculturalDataManager (src/src/data_manager.py) and the entry points  *)
(* that drive it (its __main__ script, AgriculturalDashboard).             *)
(*                                                                         *)
(* A table (pandas DataFrame) is [cols |-> set of column names,            *)
(* rows |-> sequence of rows], a row a function from the column names to   *)
(* cells.  A cell is <<>> (NaN / NaT), <<t>> (a timestamp, counted in      *)
(* slots of a day) or <<n, d>> (the number n/d in lowest terms, d > 0).    *)
(* An attribute or a result that is Python's None is the record None.      *)
(***************************************************************************)
EXTENDS Integers, Sequences, FiniteSets, TLC

VARIABLES
    files,            \* the four input files under data/: Missing or a table
    writable,         \* whether data/features.csv can be written
    features_csv,     \* data/features.csv: Missing or the persisted table
    monitoring_data,  \* self.monitoring_data
    weather_data,     \* self.weather_data
    soil_data,        \* self.soil_data
    yield_history,    \* self.yield_history
    script,           \* the stage calls of the running entry point, in order
    pc,               \* index in script of the next call
    raised,           \* the stage whose exception left the stage, or "none"
    features,         \* the caller's variable holding prepare_features' result
    patterns,         \* the result of get_temporal_patterns
    risk_metrics,     \* the result of calculate_risk_metrics
    risk_csv,         \* data/grouped_risk_metrics.csv
    since_load,       \* the stages that returned since the last load_data, in order
    failed_step       \* the steps of the last prepare_features that raised

vars == <<files, writable, features_csv, monitoring_data, weather_data, soil_data,
          yield_history, script, pc, raised, features, patterns, risk_metrics,
          risk_csv, since_load, failed_step>>

-----------------------------------------------------------------------------
(* Bounds of the model *)

SlotsPerDay == 2
MaxDay == 2
MaxWeatherRows == 3
MaxObs == 13
MaxTime == 5
MaxAsofRows == 2
MaxJoinRows == 2
MaxNullObs == 1
MaxCalls == 4

-----------------------------------------------------------------------------
(* Cells and numbers *)

\* Python's None, and a file that does not exist
None == [kind |-> "None"]
Missing == [kind |-> "missing"]
NaN == <<>>

IsNull(c) == c = <<>>

Abs(n) == IF n < 0 THEN -n ELSE n

RECURSIVE Gcd(_, _)
Gcd(a, b) == IF b = 0 THEN a ELSE Gcd(b, a % b)

\* the number n/d (d > 0) in lowest terms
Q(n, d) == LET g == Gcd(Abs(n), d) IN <<n \div g, d \div g>>

Num(v) == <<v, 1>>
Date(t) == <<t>>
QAdd(a, b) == Q(a[1] * b[2] + b[1] * a[2], a[2] * b[2])
QDivInt(a, k) == Q(a[1], a[2] * k)
QLess(a, b) == a[1] * b[2] < b[1] * a[2]

\* Series.abs(): NaN stays NaN
CellAbs(c) == IF IsNull(c) THEN c ELSE <<Abs(c[1]), c[2]>>

RECURSIVE QSum(_)
QSum(s) == IF s = <<>> THEN Num(0) ELSE QAdd(Head(s), QSum(Tail(s)))

\* mean() of one group: NaN cells are skipped, a group with none left gives NaN
Mean(cells) ==
    LET vals == SelectSeq(cells, LAMBDA c : ~IsNull(c))
    IN IF vals = <<>> THEN NaN ELSE QDivInt(QSum(vals), Len(vals))

IsTable(t) == t # None /\ t # Missing

Table(cols, rows) == [cols |-> cols, rows |-> rows]

\* DataFrame.to_csv(path, index=False): the file holds the columns and the rows
\* of the table (the index is not written)
to_csv(t) == Table(t.cols, t.rows)

Column(t, c) == [i \in 1..Len(t.rows) |-> t.rows[i][c]]

DayOf(t) == t \div SlotsPerDay
Midnight(day) == day * SlotsPerDay

RECURSIVE SeqMin(_)
SeqMin(s) == IF Len(s) = 1 THEN s[1]
             ELSE LET m == SeqMin(Tail(s)) IN IF s[1] <= m THEN s[1] ELSE m

RECURSIVE SeqMax(_)
SeqMax(s) == IF Len(s) = 1 THEN s[1]
             ELSE LET m == SeqMax(Tail(s)) IN IF s[1] >= m THEN s[1] ELSE m

-----------------------------------------------------------------------------
(* load_data *)

FileOrder == <<"monitoring", "weather", "soil", "yield">>

\* pd.read_csv(path, parse_dates=[...]): raises when the file is missing, and
\* when a column named in parse_dates is not in the file
ReadFails(f, parseDates) ==
    \/ f = Missing
    \/ \E c \in parseDates : c \notin f.cols

ParseDates(name) == IF name = "soil" THEN {} ELSE {"date"}

\* the number of reads that succeed before the first one that raises: the four
\* reads share one try block, so the first fault skips every later assignment
RECURSIVE LoadedCount(_, _)
LoadedCount(fs, k) ==
    IF k > Len(FileOrder) THEN Len(FileOrder)
    ELSE IF ReadFails(fs[FileOrder[k]], ParseDates(FileOrder[k])) THEN k - 1
    ELSE LoadedCount(fs, k + 1)

\* the value of the k-th attribute after load_data
Loaded(fs, k, old) == IF k <= LoadedCount(fs, 1) THEN fs[FileOrder[k]] ELSE old

Calls(name) == pc <= Len(script) /\ script[pc] = name /\ raised = "none"

load_data ==
    /\ Calls("load_data")
    /\ monitoring_data' = Loaded(files, 1, monitoring_data)
    /\ weather_data' = Loaded(files, 2, weather_data)
    /\ soil_data' = Loaded(files, 3, soil_data)
    /\ yield_history' = Loaded(files, 4, yield_history)
    /\ since_load' = <<>>
    /\ pc' = pc + 1
    /\ UNCHANGED <<files, writable, features_csv, script, raised, features, patterns,
                   risk_metrics, risk_csv, failed_step>>

-----------------------------------------------------------------------------
(* clean_data *)

Rad == "rayonnement_solaire"

\* self.weather_data['rayonnement_solaire'] raises on None (TypeError) and on a
\* table without the column (KeyError); nothing catches it
CleanRaises(w) == w = None \/ Rad \notin w.cols

\* the variant that computes abs() and does not store it
CleanNothing(w) == w

CleanTable(w) ==
    Table(w.cols, [i \in 1..Len(w.rows) |-> [w.rows[i] EXCEPT ![Rad] = CellAbs(@)]])

clean_data ==
    /\ Calls("clean_data")
    /\ IF CleanRaises(weather_data)
       THEN /\ raised' = "clean_data"
            /\ UNCHANGED <<weather_data, since_load, pc>>
       ELSE /\ weather_data' = CleanTable(weather_data)
            /\ since_load' = Append(since_load, "clean_data")
            /\ pc' = pc + 1
            /\ UNCHANGED raised
    /\ UNCHANGED <<files, writable, features_csv, monitoring_data, soil_data,
                   yield_history, script, features, patterns, risk_metrics, risk_csv,
                   failed_step>>

-----------------------------------------------------------------------------
(* meteo_data_hourly_to_daily *)

\* inside the try block: None has no item assignment, and set_index('date')
\* needs the column (the assignment of to_datetime(...) needs it first)
ResampleRaises(w) == w = None \/ "date" \notin w.cols

\* the variant that groups by day and makes no row for a day without readings
ResampleDaysWithRows(w) ==
    LET days == {DayOf(w.rows[i]["date"][1]) : i \in 1..Len(w.rows)}
        Rank(d) == Cardinality({e \in days : e <= d})
        OfDay(d) == SelectSeq(w.rows, LAMBDA r : DayOf(r["date"][1]) = d)
        DayRow(d) == [c \in w.cols |->
                        IF c = "date" THEN Date(Midnight(d))
                        ELSE Mean([i \in 1..Len(OfDay(d)) |-> OfDay(d)[i][c]])]
    IN Table(w.cols, [k \in 1..Cardinality(days) |->
                        DayRow(CHOOSE d \in days : Rank(d) = k)])

\* .set_index('date').resample('D').mean().reset_index(): one row for every
\* calendar day from the first day with a row to the last, the mean of the
\* day's cells in every other column, NaN for a day without rows
Resample(w) ==
    IF w.rows = <<>> THEN Table(w.cols, <<>>)
    ELSE LET days == [i \in 1..Len(w.rows) |-> DayOf(w.rows[i]["date"][1])]
             lo == SeqMin(days)
             hi == SeqMax(days)
             OfDay(d) == SelectSeq(w.rows, LAMBDA r : DayOf(r["date"][1]) = d)
             DayRow(d) == [c \in w.cols |->
                             IF c = "date" THEN Date(Midnight(d))
                             ELSE Mean([i \in 1..Len(OfDay(d)) |-> OfDay(d)[i][c]])]
         IN Table(w.cols, [k \in 1..(hi - lo + 1) |-> DayRow(lo + k - 1)])

meteo_data_hourly_to_daily ==
    /\ Calls("meteo_data_hourly_to_daily")
    /\ weather_data' = IF ResampleRaises(weather_data) THEN weather_data
                       ELSE Resample(weather_data)
    /\ since_load' = Append(since_load, "meteo_data_hourly_to_daily")
    /\ pc' = pc + 1
    /\ UNCHANGED <<files, writable, features_csv, monitoring_data, soil_data,
                   yield_history, script, raised, features, patterns, risk_metrics,
                   risk_csv, failed_step>>

-----------------------------------------------------------------------------
(* prepare_features *)

DateOf(r) == r["date"][1]

\* DataFrame.sort_values(by="date"): ascending, rows of equal date keep their order
RECURSIVE InsertByDate(_, _)
InsertByDate(r, s) ==
    IF s = <<>> THEN <<r>>
    ELSE IF DateOf(Head(s)) <= DateOf(r) THEN <<Head(s)>> \o InsertByDate(r, Tail(s))
    ELSE <<r>> \o s

RECURSIVE SortRows(_)
SortRows(s) == IF s = <<>> THEN <<>>
               ELSE InsertByDate(s[Len(s)], SortRows(SubSeq(s, 1, Len(s) - 1)))

SortByDate(t) == Table(t.cols, SortRows(t.rows))

\* pandas' suffixes for a column that both sides of a merge have and that is
\* not a key: c_x on the left, c_y on the right
LeftName(c, shared) == IF c \in shared THEN c \o "_x" ELSE c
RightName(c, shared) == IF c \in shared THEN c \o "_y" ELSE c

\* the row of a merge made of left row l and right row r (r = None: no match)
Joined(l, r, lcols, rcols, keys) ==
    LET shared == (lcols \cap rcols) \ keys
        lnames == {LeftName(c, shared) : c \in lcols}
        rnames == {RightName(c, shared) : c \in rcols \ keys}
    IN [n \in lnames \cup rnames |->
          IF n \in lnames
          THEN l[CHOOSE c \in lcols : LeftName(c, shared) = n]
          ELSE IF r = None THEN NaN
          ELSE r[CHOOSE c \in rcols \ keys : RightName(c, shared) = n]]

JoinedCols(lcols, rcols, keys) ==
    LET shared == (lcols \cap rcols) \ keys
    IN {LeftName(c, shared) : c \in lcols} \cup {RightName(c, shared) : c \in rcols \ keys}

\* the variant with the default direction='backward': the last date <= t
BackwardIndex(t, dates) ==
    LET back == {j \in 1..Len(dates) : dates[j] <= t}
    IN IF back = {} THEN 0 ELSE CHOOSE j \in back : \A k \in back : k <= j

\* merge_asof(..., direction='nearest'): the index in the sorted right dates of
\* the row paired with left date t, 0 when the right table is empty.  pandas
\* searches backward (the last date <= t) and forward (the first date >= t) and
\* keeps the backward row unless the forward one is strictly nearer.
NearestIndex(t, dates) ==
    LET back == {j \in 1..Len(dates) : dates[j] <= t}
        forw == {j \in 1..Len(dates) : dates[j] >= t}
        b == CHOOSE j \in back : \A k \in back : k <= j
        f == CHOOSE j \in forw : \A k \in forw : j <= k
    IN IF back # {} /\ forw # {}
       THEN IF t - dates[b] <= dates[f] - t THEN b ELSE f
       ELSE IF back # {} THEN b
       ELSE IF forw # {} THEN f
       ELSE 0

MergeAsof(left, right) ==
    LET dates == [j \in 1..Len(right.rows) |-> DateOf(right.rows[j])]
        Pair(l) == LET j == NearestIndex(DateOf(l), dates)
                   IN IF j = 0 THEN None ELSE right.rows[j]
    IN Table(JoinedCols(left.cols, right.cols, {"date"}),
             [i \in 1..Len(left.rows) |->
                Joined(left.rows[i], Pair(left.rows[i]), left.cols, right.cols, {"date"})])

\* pd.merge raises on a right side that is None and on a key missing from a side
MergeRaises(left, right, keys) ==
    \/ right = None
    \/ \E k \in keys : k \notin left.cols \/ k \notin right.cols

RECURSIVE Flatten(_)
Flatten(ss) == IF ss = <<>> THEN <<>> ELSE Head(ss) \o Flatten(Tail(ss))

\* the variant with the default how='inner': left rows without a match are dropped
MergeInner(left, right, keys) ==
    LET Matches(l) == SelectSeq(right.rows, LAMBDA r : \A k \in keys : r[k] = l[k])
        Out(l) == [j \in 1..Len(Matches(l)) |->
                     Joined(l, Matches(l)[j], left.cols, right.cols, keys)]
    IN Table(JoinedCols(left.cols, right.cols, keys),
             Flatten([i \in 1..Len(left.rows) |-> Out(left.rows[i])]))

\* pd.merge(left, right, how='left', on=keys): every left row, in order, once
\* for each right row with equal keys, and once with NaN when there is none
MergeLeft(left, right, keys) ==
    LET Matches(l) == SelectSeq(right.rows, LAMBDA r : \A k \in keys : r[k] = l[k])
        Out(l) == IF Matches(l) = <<>>
                  THEN <<Joined(l, None, left.cols, right.cols, keys)>>
                  ELSE [j \in 1..Len(Matches(l)) |->
                          Joined(l, Matches(l)[j], left.cols, right.cols, keys)]
    IN Table(JoinedCols(left.cols, right.cols, keys),
             Flatten([i \in 1..Len(left.rows) |-> Out(left.rows[i])]))

YieldKeys == {"parcelle_id", "date"}

\* the variant whose except branch returns nothing
EnrichWithoutFallback(data, y) ==
    IF MergeRaises(data, y, YieldKeys) THEN None ELSE MergeLeft(data, y, YieldKeys)

\* _enrich_with_yield_history: the merge, or the table as it came when the merge raises
EnrichWithYieldHistory(data, y) ==
    IF MergeRaises(data, y, YieldKeys) THEN data ELSE MergeLeft(data, y, YieldKeys)

\* drop(columns=[c + "_y"], errors='ignore') and rename({c + "_x": c})
Collapse(t, c) ==
    LET kept == t.cols \ {c \o "_y"}
        New(n) == IF n = c \o "_x" THEN c ELSE n
        cols == {New(n) : n \in kept}
    IN Table(cols, [i \in 1..Len(t.rows) |->
                      [n \in cols |-> t.rows[i][CHOOSE o \in kept : New(o) = n]]])

CollapseAll(t) == Collapse(Collapse(Collapse(t, "latitude"), "longitude"), "culture")

\* the variant that persists the table after each merge: the as-of table is
\* already in the file when the soil join raises
PrepareFeaturesPersistingEarly(m, w, s, y, canWrite, oldCsv) ==
    LET Out(m2, w2, res, csv, failed) ==
            [monitoring |-> m2, weather |-> w2, result |-> res, csv |-> csv,
             failed |-> failed]
    IN IF m = None \/ "date" \notin m.cols
       THEN Out(m, w, None, oldCsv, {"sort"})
       ELSE IF w = None \/ "date" \notin w.cols
       THEN Out(SortByDate(m), w, None, oldCsv, {"sort"})
       ELSE LET ms == SortByDate(m)
                ws == SortByDate(w)
                asof == MergeAsof(ms, ws)
                early == IF canWrite THEN to_csv(asof) ELSE oldCsv
            IN IF MergeRaises(asof, s, {"parcelle_id"})
               THEN Out(ms, ws, None, early, {"soil"})
               ELSE LET soiled == MergeLeft(asof, s, {"parcelle_id"})
                        yf == IF MergeRaises(soiled, y, YieldKeys) THEN {"yield"} ELSE {}
                        enriched == EnrichWithYieldHistory(soiled, y)
                        data == CollapseAll(enriched)
                    IN IF enriched = None THEN Out(ms, ws, None, early, yf \cup {"collapse"})
                       ELSE IF canWrite
                       THEN Out(ms, ws, data, to_csv(data), yf)
                       ELSE Out(ms, ws, None, oldCsv, yf \cup {"persist"})

\* the outcome of prepare_features: the attributes it leaves, the table it
\* returns (None after a caught exception), the file it leaves and the steps
\* that raised
PrepareFeatures(m, w, s, y, canWrite, oldCsv) ==
    LET Out(m2, w2, res, csv, failed) ==
            [monitoring |-> m2, weather |-> w2, result |-> res, csv |-> csv,
             failed |-> failed]
    IN IF m = None \/ "date" \notin m.cols
       THEN Out(m, w, None, oldCsv, {"sort"})
       ELSE IF w = None \/ "date" \notin w.cols
       THEN Out(SortByDate(m), w, None, oldCsv, {"sort"})
       ELSE LET ms == SortByDate(m)
                ws == SortByDate(w)
                asof == MergeAsof(ms, ws)
            IN IF MergeRaises(asof, s, {"parcelle_id"})
               THEN Out(ms, ws, None, oldCsv, {"soil"})
               ELSE LET soiled == MergeLeft(asof, s, {"parcelle_id"})
                        yf == IF MergeRaises(soiled, y, YieldKeys) THEN {"yield"} ELSE {}
                        enriched == EnrichWithYieldHistory(soiled, y)
                        data == CollapseAll(enriched)
                    IN \* data.drop(...) on anything but a table raises
                       IF enriched = None THEN Out(ms, ws, None, oldCsv, yf \cup {"collapse"})
                       ELSE IF canWrite
                       THEN Out(ms, ws, data, to_csv(data), yf)
                       ELSE Out(ms, ws, None, oldCsv, yf \cup {"persist"})

prepare_features ==
    /\ Calls("prepare_features")
    /\ LET o == PrepareFeatures(monitoring_data, weather_data, soil_data, yield_history,
                                writable, features_csv)
       IN /\ monitoring_data' = o.monitoring
          /\ weather_data' = o.weather
          /\ features' = o.result
          /\ features_csv' = o.csv
          /\ failed_step' = o.failed
    /\ pc' = pc + 1
    /\ since_load' = Append(since_load, "prepare_features")
    /\ UNCHANGED <<files, writable, soil_data, yield_history, script, raised, patterns,
                   risk_metrics, risk_csv>>

-----------------------------------------------------------------------------
(* get_temporal_patterns *)

Period == 12
MainParcel == 1

\* seasonal_decompose(series, model="additive", period=12) on n observations.
\* What it does with fewer than two complete cycles depends on the statsmodels
\* release (the repository pins none): releases from 0.11 on raise (twoCycles),
\* older ones go on to the moving average.  The centred moving average of an
\* even period spans Period + 1 points, so the trend and the residual lose
\* Period \div 2 points at each end; the seasonal part keeps every point.
DecomposeRaises(n, twoCycles) == twoCycles /\ n < 2 * Period

TrendIndex(dates) ==
    LET h == Period \div 2
    IN IF Len(dates) <= 2 * h THEN <<>> ELSE SubSeq(dates, h + 1, Len(dates) - h)

\* get_temporal_patterns(parcelle_id): None for (None, None), else the index
\* (dates) of each returned series
GetTemporalPatterns(csv, parcelle_id, twoCycles) ==
    IF csv = Missing \/ "date" \notin csv.cols \/ "parcelle_id" \notin csv.cols
    THEN None
    ELSE LET rows == SortRows(SelectSeq(csv.rows,
                                        LAMBDA r : r["parcelle_id"] = Num(parcelle_id)))
         IN IF "ndvi" \notin csv.cols \/ rows = <<>>
            THEN None
            ELSE LET obs == SelectSeq(rows, LAMBDA r : ~IsNull(r["ndvi"]))
                     dates == [i \in 1..Len(obs) |-> DateOf(obs[i])]
                 IN IF Len(obs) < Period THEN None
                    ELSE IF DecomposeRaises(Len(obs), twoCycles) THEN None
                    \* LinearRegression().fit(date_ordinal, ndvi_values): X has a row
                    \* for every row of the parcel, y one for every non-null NDVI
                    ELSE IF Len(rows) # Len(obs) THEN None
                    ELSE [ndvi_trend |-> TrendIndex(dates),
                          ndvi_seasonal |-> dates,
                          ndvi_residual |-> TrendIndex(dates),
                          input_dates |-> {DateOf(rows[i]) : i \in 1..Len(rows)},
                          observations |-> Len(obs)]

get_temporal_patterns ==
    /\ Calls("get_temporal_patterns")
    /\ \E twoCycles \in BOOLEAN :
         patterns' = GetTemporalPatterns(features_csv, MainParcel, twoCycles)
    /\ pc' = pc + 1
    /\ UNCHANGED <<files, writable, features_csv, monitoring_data, weather_data,
                   soil_data, yield_history, script, raised, features, risk_metrics,
                   risk_csv, since_load, failed_step>>

-----------------------------------------------------------------------------
(* calculate_risk_metrics *)

RequiredColumns == {"parcelle_id", "culture", "rendement_estime", "ph", "matiere_organique"}

QNeg(a) == <<-a[1], a[2]>>
QMul(a, b) == Q(a[1] * b[1], a[2] * b[2])
QDiv(a, b) == IF b[1] < 0 THEN Q(-(a[1] * b[2]), a[2] * (-b[1])) ELSE Q(a[1] * b[2], a[2] * b[1])

IsSquare(n) == \E r \in 0..n : r * r = n
ISqrt(n) == CHOOSE r \in 0..n : r * r = n

\* StandardScaler().fit_transform on one column: (x - mean) / std with the
\* population standard deviation, both taken over the non-NaN cells; a zero
\* deviation scales by 1; NaN stays NaN.  The deviation is computed exactly, so
\* the operator is defined on the columns whose variance is the square of a
\* rational number
Standardize(cells) ==
    LET vals == SelectSeq(cells, LAMBDA c : ~IsNull(c))
        mean == Mean(vals)
        var == Mean([i \in 1..Len(vals) |->
                        QMul(QAdd(vals[i], QNeg(mean)), QAdd(vals[i], QNeg(mean)))])
        std == <<ISqrt(var[1]), ISqrt(var[2])>>
        scale == IF std[1] = 0 THEN Num(1) ELSE std
    IN [i \in 1..Len(cells) |->
          IF IsNull(cells[i]) THEN NaN ELSE QDiv(QAdd(cells[i], QNeg(mean)), scale)]

\* 0.5 * z(rendement_estime) + 0.3 * z(ph) + 0.2 * z(matiere_organique)
RiskIndex(zy, zp, zm) ==
    IF IsNull(zy) \/ IsNull(zp) \/ IsNull(zm) THEN NaN
    ELSE QAdd(QAdd(QMul(Q(5, 10), zy), QMul(Q(3, 10), zp)), QMul(Q(2, 10), zm))

\* pd.cut(x, bins=[-inf, -1, 0, 1, inf], labels=Labels): the bins are closed on
\* the right, so x falls in the bin after every edge it is strictly above
Edges == <<-1, 0, 1>>
Labels == <<"Tres Bas", "Bas", "Modere", "Eleve">>

CutRight(x) ==
    IF IsNull(x) THEN NaN
    ELSE Num(1 + Cardinality({e \in 1..Len(Edges) : QLess(Num(Edges[e]), x)}))

\* the variant with right=False: bins closed on the left
CutLeft(x) ==
    IF IsNull(x) THEN NaN
    ELSE Num(1 + Cardinality({e \in 1..Len(Edges) : ~QLess(x, Num(Edges[e]))}))

RiskCategory(x) == CutRight(x)

\* x.mode()[0] of a categorical series: the most frequent category, the lowest
\* one among equally frequent ones; None (a null cell) when all are NaN
Mode(cells) ==
    LET Count(k) == Cardinality({i \in 1..Len(cells) : cells[i] = Num(k)})
        ks == {k \in 1..Len(Labels) : Count(k) > 0}
    IN IF ks = {} THEN NaN
       ELSE Num(CHOOSE k \in ks : \A j \in ks :
                        Count(j) < Count(k) \/ (Count(j) = Count(k) /\ k <= j))

\* groupby(['parcelle_id', 'culture']).agg(...).reset_index(): one row for each
\* key pair without NaN, in ascending key order
KeyLess(a, b) == QLess(a[1], b[1]) \/ (a[1] = b[1] /\ QLess(a[2], b[2]))

RECURSIVE SortKeys(_)
SortKeys(ks) ==
    IF ks = {} THEN <<>>
    ELSE LET m == CHOOSE k \in ks : \A j \in ks \ {k} : KeyLess(k, j)
         IN <<m>> \o SortKeys(ks \ {m})

GroupRisk(t) ==
    LET KeyOf(r) == <<r["parcelle_id"], r["culture"]>>
        keys == {KeyOf(t.rows[i]) : i \in {j \in 1..Len(t.rows) :
                     ~IsNull(t.rows[j]["parcelle_id"]) /\ ~IsNull(t.rows[j]["culture"])}}
        order == SortKeys(keys)
        Of(k) == SelectSeq(t.rows, LAMBDA r : KeyOf(r) = k)
    IN Table({"parcelle_id", "culture", "avg_risk_index", "most_frequent_risk_category"},
             [g \in 1..Len(order) |->
                [parcelle_id |-> order[g][1],
                 culture |-> order[g][2],
                 avg_risk_index |->
                     Mean([i \in 1..Len(Of(order[g])) |-> Of(order[g])[i]["risk_index"]]),
                 most_frequent_risk_category |->
                     Mode([i \in 1..Len(Of(order[g])) |-> Of(order[g])[i]["risk_category"]])]])

\* data['risk_index'] = ... ; data['risk_category'] = pd.cut(...): the two
\* columns are set on the table the caller passed
WithRisk(data) ==
    LET zy == Standardize(Column(data, "rendement_estime"))
        zp == Standardize(Column(data, "ph"))
        zm == Standardize(Column(data, "matiere_organique"))
        cols == data.cols \cup {"risk_index", "risk_category"}
        Index(i) == RiskIndex(zy[i], zp[i], zm[i])
    IN Table(cols, [i \in 1..Len(data.rows) |->
                      [c \in cols |->
                         IF c = "risk_index" THEN Index(i)
                         ELSE IF c = "risk_category" THEN RiskCategory(Index(i))
                         ELSE data.rows[i][c]]])

\* the checks that raise before the table is touched: None has no columns, a
\* required column is absent, the scaler is given no row
RiskRaises(data) ==
    \/ data = None
    \/ \E c \in RequiredColumns : c \notin data.cols
    \/ data.rows = <<>>

calculate_risk_metrics ==
    /\ Calls("calculate_risk_metrics")
    /\ IF RiskRaises(features)
       THEN /\ risk_metrics' = None
            /\ UNCHANGED <<features, risk_csv>>
       ELSE /\ features' = WithRisk(features)
            /\ risk_metrics' = GroupRisk(WithRisk(features))
            /\ risk_csv' = to_csv(GroupRisk(WithRisk(features)))
    /\ pc' = pc + 1
    /\ UNCHANGED <<files, writable, features_csv, monitoring_data, weather_data,
                   soil_data, yield_history, script, raised, patterns, since_load,
                   failed_step>>

-----------------------------------------------------------------------------
(* The input files *)

MonRow(p, t, ndvi) ==
    [parcelle_id |-> Num(p), date |-> Date(t), ndvi |-> ndvi, culture |-> Num(1),
     latitude |-> Num(p)]
MonCols == {"parcelle_id", "date", "ndvi", "culture", "latitude"}

WeatherRow(t, rad) == [date |-> Date(t), rayonnement_solaire |-> rad]
WeatherCols == {"date", Rad}

SoilRow(p, ph, mo) ==
    [parcelle_id |-> Num(p), ph |-> Num(ph), matiere_organique |-> Num(mo),
     latitude |-> Num(p)]
SoilCols == {"parcelle_id", "ph", "matiere_organique", "latitude"}

YieldRow(p, t, y) ==
    [parcelle_id |-> Num(p), date |-> Date(t), rendement_estime |-> Num(y),
     culture |-> Num(1)]
YieldCols == {"parcelle_id", "date", "rendement_estime", "culture"}

DefaultMonitoring ==
    Table(MonCols, <<MonRow(1, Midnight(1), Num(1)), MonRow(2, Midnight(0), NaN)>>)
DefaultWeather ==
    Table(WeatherCols, <<WeatherRow(Midnight(0), Num(-5)), WeatherRow(Midnight(0) + 1, Num(10)),
                         WeatherRow(Midnight(1), Num(9))>>)
DefaultSoil == Table(SoilCols, <<SoilRow(1, 7, 2), SoilRow(2, 5, 4)>>)
DefaultYield == Table(YieldCols, <<YieldRow(1, Midnight(1), 3)>>)

\* a yield file without the parcelle_id column
YieldNoKey ==
    Table(YieldCols \ {"parcelle_id"},
          <<[date |-> Date(Midnight(1)), rendement_estime |-> Num(3), culture |-> Num(1)]>>)

DefaultFiles ==
    [monitoring |-> DefaultMonitoring, weather |-> DefaultWeather, soil |-> DefaultSoil,
     yield |-> DefaultYield]

\* the sequences over S of length at most n
SeqsUpTo(S, n) == UNION {[1..k -> S] : k \in 0..n}

Reverse(s) == [i \in 1..Len(s) |-> s[Len(s) + 1 - i]]

-----------------------------------------------------------------------------
(* The entry points *)

\* data_manager.py run as a script
MainScript ==
    <<"load_data", "clean_data", "meteo_data_hourly_to_daily", "prepare_features",
      "get_temporal_patterns", "calculate_risk_metrics">>

\* AgriculturalDashboard.create_data_sources
DashboardScript == <<"load_data", "prepare_features">>

\* the state of a new AgriculturalDataManager before the entry point's first call
Start(fs, w, csv, sc) ==
    /\ files = fs
    /\ writable = w
    /\ features_csv = csv
    /\ script = sc
    /\ monitoring_data = None
    /\ weather_data = None
    /\ soil_data = None
    /\ yield_history = None
    /\ pc = 1
    /\ raised = "none"
    /\ features = None
    /\ patterns = None
    /\ risk_metrics = None
    /\ risk_csv = Missing
    /\ since_load = <<>>
    /\ failed_step = {}

Done == pc > Len(script) \/ raised # "none"

\* Any subset of the input files present, the yield file with or without its
\* key column, the feature file writable or not, under either entry point.
Init ==
    \E mo \in {Missing, DefaultMonitoring}, we \in {Missing, DefaultWeather},
       so \in {Missing, DefaultSoil}, yi \in {Missing, DefaultYield, YieldNoKey},
       w \in BOOLEAN, sc \in {MainScript, DashboardScript} :
        Start([monitoring |-> mo, weather |-> we, soil |-> so, yield |-> yi],
              w, Missing, sc)

Next ==
    \/ load_data
    \/ clean_data
    \/ meteo_data_hourly_to_daily
    \/ prepare_features
    \/ get_temporal_patterns
    \/ calculate_risk_metrics

Spec == Init /\ [][Next]_vars

-----------------------------------------------------------------------------
(* Claims checked under Spec *)

\* the call before pc was to stage `name`, and it returned
JustRan(name) == pc > 1 /\ script[pc - 1] = name /\ raised = "none"

AttributeOf(name) ==
    CASE name = "monitoring" -> monitoring_data
      [] name = "weather" -> weather_data
      [] name = "soil" -> soil_data
      [] name = "yield" -> yield_history

FileNames == {FileOrder[k] : k \in 1..Len(FileOrder)}

\* C1: no stage lets an exception out, whatever tables load_data left unset:
\* in every state of both entry points no stage has raised.
C1_NoStageRaises == raised = "none"

\* C2: when exactly one input file is missing and the others parse, load_data
\* leaves unset the table of the missing file and only that one.
C2_OnlyMissingTableUnset ==
    (/\ pc = 2
     /\ Cardinality({n \in FileNames : files[n] = Missing}) = 1
     /\ files["yield"] # YieldNoKey)
    => \A n \in FileNames : (AttributeOf(n) = None) <=> (files[n] = Missing)

\* C3: whenever prepare_features is about to be called, clean_data and then
\* meteo_data_hourly_to_daily have run since the most recent load_data.
C3_MergeAfterCleanAndResample ==
    Calls("prepare_features")
    => since_load = <<"clean_data", "meteo_data_hourly_to_daily">>

\* C6 as stated: when any step of prepare_features raised, the failing yield
\* join included, prepare_features returned None.
C6_NoneAfterAnyFailure ==
    (JustRan("prepare_features") /\ failed_step # {}) => features = None

\* C6 as the code has it: prepare_features returns None exactly when a step
\* other than the yield join raised; a yield join that raises is caught inside
\* _enrich_with_yield_history, and the table is then returned, and persisted,
\* as it was before the yield join (without the yield columns).
C6_NoneUnlessOnlyYieldFailed ==
    JustRan("prepare_features")
    => /\ (features = None) <=> (failed_step \ {"yield"} # {})
       /\ ("yield" \in failed_step /\ writable) => features # None
       /\ (features # None /\ "yield" \in failed_step)
          => /\ "rendement_estime" \notin features.cols
             /\ features_csv = to_csv(features)
             /\ Len(features.rows) = Len(monitoring_data.rows)

\* C6: a run where only the yield join raised and a table was returned.
C6_Witness ==
    /\ JustRan("prepare_features")
    /\ failed_step = {"yield"}
    /\ features # None
    /\ yield_history = None

-----------------------------------------------------------------------------
(* The Cleaner/Resampler on bounded weather files *)

RadValues == {Num(-5), Num(10), Num(9), NaN}

\* the readings of a weather file: for each reading its day and its radiation,
\* the days in time order.  The k-th reading of a day is stamped k - 1 + first
\* slots after midnight (modulo the day).
InTimeOrder(q) == \A i \in 1..(Len(q) - 1) : q[i][1] <= q[i + 1][1]

StampOf(q, i, first) ==
    Midnight(q[i][1])
    + ((Cardinality({j \in 1..(i - 1) : q[j][1] = q[i][1]}) + first) % SlotsPerDay)

\* a file whose first reading of a day is at midnight ("midnight"), the same
\* file written latest reading first ("reversed"), and a file whose first
\* reading of a day is one slot after midnight ("late")
Shapes == {"midnight", "reversed", "late"}

WeatherFile(q, shape) ==
    LET first == IF shape = "late" THEN 1 ELSE 0
        rows == [i \in 1..Len(q) |-> WeatherRow(StampOf(q, i, first), q[i][2])]
    IN Table(WeatherCols, IF shape = "reversed" THEN Reverse(rows) ELSE rows)

\* the head of the main script: load, clean, resample
CleanResampleScript == SubSeq(MainScript, 1, 3)

\* the resampler applied twice to what was loaded
ResampleTwiceScript ==
    <<"load_data", "meteo_data_hourly_to_daily", "meteo_data_hourly_to_daily">>

\* Any weather file of at most MaxWeatherRows readings over the days 0..MaxDay, in
\* any of the three shapes; the other files as in DefaultFiles.
InitWeather ==
    \E k \in 0..MaxWeatherRows :
      \E q \in [1..k -> (0..MaxDay) \X RadValues], shape \in Shapes,
         sc \in {CleanResampleScript, ResampleTwiceScript} :
        /\ InTimeOrder(q)
        /\ Start([DefaultFiles EXCEPT !["weather"] = WeatherFile(q, shape)],
                 TRUE, Missing, sc)

NextWeather ==
    \/ load_data
    \/ clean_data
    \/ meteo_data_hourly_to_daily

SpecWeather == InitWeather /\ [][NextWeather]_vars

-----------------------------------------------------------------------------
(* Claims checked under SpecWeather *)

Clean == "clean_data"
Daily == "meteo_data_hourly_to_daily"

DaysOf(t) == {DayOf(DateOf(t.rows[i])) : i \in 1..Len(t.rows)}
ReadingsOfDay(t, d) ==
    LET rs == SelectSeq(t.rows, LAMBDA r : DayOf(DateOf(r)) = d)
    IN [i \in 1..Len(rs) |-> rs[i][Rad]]
DayValues(t) == {<<DayOf(DateOf(t.rows[i])), t.rows[i][Rad]>> : i \in 1..Len(t.rows)}
OneRowPerDay(t) ==
    \A i, j \in 1..Len(t.rows) : i # j => DayOf(DateOf(t.rows[i])) # DayOf(DateOf(t.rows[j]))
FirstDay(t) == CHOOSE d \in DaysOf(t) : \A e \in DaysOf(t) : d <= e
LastDay(t) == CHOOSE d \in DaysOf(t) : \A e \in DaysOf(t) : e <= d
Contiguous(t) == DaysOf(t) = {} \/ DaysOf(t) = FirstDay(t)..LastDay(t)
MidnightAscending(t) ==
    /\ \A i \in 1..Len(t.rows) : DateOf(t.rows[i]) = Midnight(DayOf(DateOf(t.rows[i])))
    /\ \A i \in 1..(Len(t.rows) - 1) : DateOf(t.rows[i]) < DateOf(t.rows[i + 1])

\* C9: after clean_data and then meteo_data_hourly_to_daily, every day with
\* readings in the weather file has exactly one row, whose radiation is the
\* mean of the absolute values of the day's readings, and no daily radiation
\* is negative.
C9_DailyRadiationIsMeanOfAbs ==
    (JustRan(Daily) /\ since_load = <<Clean, Daily>>)
    => /\ \A d \in DaysOf(files["weather"]) :
            /\ Cardinality({i \in 1..Len(weather_data.rows) :
                              DateOf(weather_data.rows[i]) = Midnight(d)}) = 1
            /\ \A i \in 1..Len(weather_data.rows) :
                  DateOf(weather_data.rows[i]) = Midnight(d)
                  => weather_data.rows[i][Rad]
                       = Mean([k \in 1..Len(ReadingsOfDay(files["weather"], d)) |->
                                 CellAbs(ReadingsOfDay(files["weather"], d)[k])])
       /\ \A i \in 1..Len(weather_data.rows) :
            IsNull(weather_data.rows[i][Rad]) \/ weather_data.rows[i][Rad][1] >= 0

\* C9: the readings -5, 10, 9 of one day have become the daily value 8, and
\* resampling before taking absolute values would have given another table.
C9_Witness ==
    /\ JustRan(Daily)
    /\ since_load = <<Clean, Daily>>
    /\ \E d \in DaysOf(files["weather"]) :
          /\ ReadingsOfDay(files["weather"], d) = <<Num(-5), Num(10), Num(9)>>
          /\ \E i \in 1..Len(weather_data.rows) :
                weather_data.rows[i] = WeatherRow(Midnight(d), Num(8))
    /\ CleanTable(Resample(files["weather"])) # weather_data

\* C10 as stated: a weather file with at most one row per calendar day has,
\* after meteo_data_hourly_to_daily, as many rows as before and the same value
\* on every day.
C10_DailyTableUnchanged ==
    (JustRan(Daily) /\ since_load = <<Daily>> /\ OneRowPerDay(files["weather"]))
    => /\ Len(weather_data.rows) = Len(files["weather"].rows)
       /\ DayValues(weather_data) = DayValues(files["weather"])

\* what one application does to a table with at most one row per day
C10_OnceOnDailyTable ==
    (JustRan(Daily) /\ since_load = <<Daily>> /\ OneRowPerDay(files["weather"]))
    => LET f == files["weather"]
       IN IF f.rows = <<>> THEN weather_data = f
          ELSE /\ Len(weather_data.rows) = LastDay(f) - FirstDay(f) + 1
               /\ DayValues(weather_data)
                    = DayValues(f) \cup {<<d, NaN>> : d \in (FirstDay(f)..LastDay(f)) \ DaysOf(f)}
               /\ MidnightAscending(weather_data)
               /\ (Len(weather_data.rows) = Len(f.rows)) <=> Contiguous(f)
               /\ (weather_data = f) <=> (Contiguous(f) /\ MidnightAscending(f))

\* C10 as the code has it: on a table with at most one row per calendar day the
\* resampler keeps every day's values, dates the rows at midnight in ascending
\* order and adds a row of NaN for every day missing between the first and the
\* last, so the row count is unchanged exactly when the days are contiguous;
\* and applied to its own result, for any input, it changes nothing.
C10_FillsGapsAndIsIdempotent ==
    /\ []C10_OnceOnDailyTable
    /\ [][(meteo_data_hourly_to_daily /\ since_load # <<>>
           /\ since_load[Len(since_load)] = Daily)
          => weather_data' = weather_data]_vars

\* C10: a file with one row per day and a missing day has been resampled twice;
\* the first application added a row, the second changed nothing.
C10_Witness ==
    /\ JustRan(Daily)
    /\ since_load = <<Daily, Daily>>
    /\ OneRowPerDay(files["weather"])
    /\ ~Contiguous(files["weather"])
    /\ Len(weather_data.rows) > Len(files["weather"].rows)
    /\ weather_data = Resample(files["weather"])

-----------------------------------------------------------------------------
(* The Feature Merger on bounded input files *)

\* a monitoring file of parcel 1 observed at the stamps q
MonitoringAt(q) == Table(MonCols, [i \in 1..Len(q) |-> MonRow(1, q[i], Num(1))])

\* a weather file with readings at the stamps q; the radiation of a reading is
\* its own stamp, which tells in the merged table which reading a row was
\* paired with
WeatherAt(q) == Table(WeatherCols, [i \in 1..Len(q) |-> WeatherRow(q[i], Num(q[i]))])

\* the keys of the monitoring rows of the join inputs: (parcel, stamp)
JoinKeys == {<<1, 0>>, <<2, 0>>, <<1, 2>>}

MonitoringOf(q) == Table(MonCols, [i \in 1..Len(q) |-> MonRow(q[i][1], q[i][2], Num(1))])
\* the k-th soil row has ph 5 + k
SoilOf(q) == Table(SoilCols, [i \in 1..Len(q) |-> SoilRow(q[i], 5 + i, 2)])
\* the k-th yield row has yield 2 + k
YieldOf(q) == Table(YieldCols, [i \in 1..Len(q) |-> YieldRow(q[i][1], q[i][2], 2 + i)])

\* The as-of inputs: a monitoring file of at most MaxAsofRows rows at distinct
\* stamps, in time order or reversed, and a weather file of at most MaxAsofRows
\* readings at distinct stamps in time order.
InitAsof ==
    \E km, kw \in 0..MaxAsofRows :
      \E m \in [1..km -> 0..MaxTime], w \in [1..kw -> 0..MaxTime], rev \in BOOLEAN :
        /\ \A i \in 1..(km - 1) : m[i] < m[i + 1]
        /\ \A i \in 1..(kw - 1) : w[i] < w[i + 1]
        /\ Start([DefaultFiles EXCEPT
                     !["monitoring"] = MonitoringAt(IF rev THEN Reverse(m) ELSE m),
                     !["weather"] = WeatherAt(w)],
                 TRUE, Missing, DashboardScript)

\* The join inputs: a monitoring file with one row per key, soil and yield
\* files with any rows (repeated keys included), the yield file present or not.
InitJoin ==
    \E km, ks, ky \in 0..MaxJoinRows :
      \E m \in [1..km -> JoinKeys], so \in [1..ks -> {1, 2}],
         yi \in [1..ky -> {<<1, 0>>, <<2, 0>>}], hasYield \in BOOLEAN :
        /\ \A i, j \in 1..km : i # j => m[i] # m[j]
        /\ hasYield \/ ky = 0
        /\ Start([DefaultFiles EXCEPT
                     !["monitoring"] = MonitoringOf(m),
                     !["soil"] = SoilOf(so),
                     !["yield"] = IF hasYield THEN YieldOf(yi) ELSE Missing],
                 TRUE, Missing, DashboardScript)

InitMerge == InitAsof \/ InitJoin

NextMerge ==
    \/ load_data
    \/ prepare_features

SpecMerge == InitMerge /\ [][NextMerge]_vars

-----------------------------------------------------------------------------
(* Claims checked under SpecMerge *)

Merged == JustRan("prepare_features") /\ features # None

KeyOfRow(r) == <<r["parcelle_id"], r["date"]>>
RowsWithKey(t, k) == {i \in 1..Len(t.rows) : KeyOfRow(t.rows[i]) = k}
SoilMatches(r) ==
    Cardinality({i \in 1..Len(soil_data.rows) :
                    soil_data.rows[i]["parcelle_id"] = r["parcelle_id"]})
YieldMatches(r) ==
    IF yield_history = None THEN 0
    ELSE Cardinality({i \in 1..Len(yield_history.rows) :
                         KeyOfRow(yield_history.rows[i]) = KeyOfRow(r)})
AtLeastOne(n) == IF n = 0 THEN 1 ELSE n

\* C4 as stated: the table prepare_features returns has exactly one row for
\* every (parcelle_id, date) pair of the monitoring table, whatever the soil
\* and yield tables hold.
C4_OneRowPerMonitoringKey ==
    Merged
    => \A i \in 1..Len(monitoring_data.rows) :
          Cardinality(RowsWithKey(features, KeyOfRow(monitoring_data.rows[i]))) = 1

\* C4 as the code has it: every monitoring row appears once for every pair of
\* a soil row of its parcel and a yield row of its (parcel, date), counting a
\* side without a match as one row of nulls; no monitoring row is dropped and
\* no other key appears.  With at most one soil row per parcel and one yield
\* row per (parcel, date) that is exactly one row per monitoring row.
C4_RowsMultiplyByMatches ==
    Merged
    => /\ \A i \in 1..Len(monitoring_data.rows) :
            LET r == monitoring_data.rows[i]
            IN /\ Cardinality(RowsWithKey(features, KeyOfRow(r)))
                    = Cardinality(RowsWithKey(monitoring_data, KeyOfRow(r)))
                      * AtLeastOne(SoilMatches(r)) * AtLeastOne(YieldMatches(r))
               /\ SoilMatches(r) = 0
                  => \A j \in RowsWithKey(features, KeyOfRow(r)) : IsNull(features.rows[j]["ph"])
               /\ (yield_history # None /\ YieldMatches(r) = 0)
                  => \A j \in RowsWithKey(features, KeyOfRow(r)) :
                        IsNull(features.rows[j]["rendement_estime"])
       /\ \A j \in 1..Len(features.rows) :
            RowsWithKey(monitoring_data, KeyOfRow(features.rows[j])) # {}

\* C4: a merge where one monitoring row met two soil rows of its parcel and
\* another met none.
C4_Witness ==
    /\ Merged
    /\ \E i \in 1..Len(monitoring_data.rows) : SoilMatches(monitoring_data.rows[i]) = 2
    /\ \E i \in 1..Len(monitoring_data.rows) : SoilMatches(monitoring_data.rows[i]) = 0
    /\ Len(features.rows) > Len(monitoring_data.rows)

Distance(a, b) == Abs(a - b)
Stamped(t) == \A i \in 1..Len(t.rows) : t.rows[i][Rad] = Num(DateOf(t.rows[i]))
Ascending(t) == \A i \in 1..(Len(t.rows) - 1) : DateOf(t.rows[i]) <= DateOf(t.rows[i + 1])

\* C5: after prepare_features both tables are in ascending date order, and the
\* weather reading merged into a monitoring row (identified by its radiation,
\* which in the as-of inputs is the reading's stamp) is at least as near in
\* time as every other reading.
C5_PairedWithNearest ==
    (Merged /\ Stamped(files["weather"]))
    => /\ Ascending(monitoring_data)
       /\ Ascending(weather_data)
       /\ Len(features.rows) = Len(monitoring_data.rows)
       /\ \A i \in 1..Len(features.rows) :
            LET t == DateOf(features.rows[i])
                paired == features.rows[i][Rad]
            IN IF weather_data.rows = <<>> THEN IsNull(paired)
               ELSE /\ ~IsNull(paired)
                    /\ \E j \in 1..Len(weather_data.rows) :
                          DateOf(weather_data.rows[j]) = paired[1]
                    /\ \A j \in 1..Len(weather_data.rows) :
                          Distance(t, paired[1]) <= Distance(t, DateOf(weather_data.rows[j]))

\* C5: with readings at stamps 0 and 5, the monitoring row at stamp 2 got the
\* earlier reading (distances 2 and 3) and the row at stamp 4 the later one
\* (distances 4 and 1).
C5_Witness ==
    /\ Merged
    /\ files["weather"] = WeatherAt(<<0, 5>>)
    /\ Len(features.rows) = 2
    /\ DateOf(features.rows[1]) = 2 /\ features.rows[1][Rad] = Num(0)
    /\ DateOf(features.rows[2]) = 4 /\ features.rows[2][Rad] = Num(5)

-----------------------------------------------------------------------------
(* The Temporal Analyzer on bounded monitoring files *)

\* the main script up to get_temporal_patterns
TemporalScript == SubSeq(MainScript, 1, 5)

\* n daily observations of the main parcel, the ones in `nulls` without NDVI,
\* and, with `other`, one observation of a second parcel
ObservationsFile(n, nulls, other) ==
    Table(MonCols,
          [i \in 1..n |-> MonRow(MainParcel, Midnight(i - 1), IF i \in nulls THEN NaN ELSE Num(i))]
          \o (IF other THEN <<MonRow(MainParcel + 1, Midnight(0), Num(1))>> ELSE <<>>))

\* Up to MaxObs observations of the main parcel, at most MaxNullObs of them
\* without NDVI; the other files as in DefaultFiles.
InitTemporal ==
    \E n \in 0..MaxObs, other \in BOOLEAN :
      \E nulls \in SUBSET (1..n) :
        /\ Cardinality(nulls) <= MaxNullObs
        /\ Start([DefaultFiles EXCEPT !["monitoring"] = ObservationsFile(n, nulls, other)],
                 TRUE, Missing, TemporalScript)

NextTemporal ==
    \/ load_data
    \/ clean_data
    \/ meteo_data_hourly_to_daily
    \/ prepare_features
    \/ get_temporal_patterns

SpecTemporal == InitTemporal /\ [][NextTemporal]_vars

\* the rows of the main parcel in the feature file, and its non-null NDVI count
ParcelRows == SelectSeq(features_csv.rows, LAMBDA r : r["parcelle_id"] = Num(MainParcel))
Observations == Len(SelectSeq(ParcelRows, LAMBDA r : ~IsNull(r["ndvi"])))
ParcelDates == {DateOf(ParcelRows[i]) : i \in 1..Len(ParcelRows)}
IndexOf(series) == {series[i] : i \in 1..Len(series)}

\* C7: with at least 12 non-null NDVI observations of the parcel in the feature
\* file, with or without rows of null NDVI, get_temporal_patterns returns
\* non-empty trend, seasonal and residual series indexed by dates of the
\* parcel; with fewer it returns (None, None).
C7_TwelveObservationsSuffice ==
    (JustRan("get_temporal_patterns") /\ features_csv # Missing)
    => IF Observations >= Period
       THEN /\ patterns # None
            /\ patterns.ndvi_trend # <<>>
            /\ patterns.ndvi_seasonal # <<>>
            /\ patterns.ndvi_residual # <<>>
            /\ IndexOf(patterns.ndvi_trend) \subseteq ParcelDates
            /\ IndexOf(patterns.ndvi_seasonal) \subseteq ParcelDates
            /\ IndexOf(patterns.ndvi_residual) \subseteq ParcelDates
       ELSE patterns = None

-----------------------------------------------------------------------------
(* The Risk Scorer on bounded input files *)

\* k observations of parcel 1 and one of parcel 2.  The scaler divides by a
\* standard deviation, which is a rational number for these row counts (k a
\* square: k values of one kind and one of another have variance
\* k * d^2 / (k + 1)^2), so the model standardizes them exactly.
RiskRowCounts == {1, 4}

RiskMonitoring(k) ==
    Table(MonCols, [i \in 1..(k + 1) |->
                      IF i <= k THEN MonRow(1, Midnight(i - 1), Num(1))
                      ELSE MonRow(2, Midnight(0), Num(1))])

RiskYield(k, y1, y2) ==
    Table(YieldCols, [i \in 1..(IF y2 = 0 THEN k ELSE k + 1) |->
                        IF i <= k THEN YieldRow(1, Midnight(i - 1), y1)
                        ELSE YieldRow(2, Midnight(0), y2)])

\* Soil and yield values of the two parcels drawn from two levels each; y2 = 0
\* stands for a second parcel without a yield row.
InitRisk ==
    \E k \in RiskRowCounts, ph1, ph2 \in {5, 7}, mo1, mo2 \in {2, 4}, y1 \in {3, 5},
       y2 \in {0, 3, 5} :
        Start([monitoring |-> RiskMonitoring(k),
               weather |-> DefaultWeather,
               soil |-> Table(SoilCols, <<SoilRow(1, ph1, mo1), SoilRow(2, ph2, mo2)>>),
               yield |-> RiskYield(k, y1, y2)],
              TRUE, Missing, MainScript)

SpecRisk == InitRisk /\ [][Next]_vars

Scored == JustRan("calculate_risk_metrics") /\ risk_metrics # None

QLeq(a, b) == ~QLess(b, a)

\* C8: every row with a risk index has exactly the category of the right-closed
\* interval its index lies in: (-inf, -1] the first label, (-1, 0] the second,
\* (0, 1] the third, (1, inf) the fourth; the category never decreases as the
\* index grows; a row without a risk index has no category.
C8_RightClosedBuckets ==
    Scored
    => /\ \A i \in 1..Len(features.rows) :
            LET x == features.rows[i]["risk_index"]
                c == features.rows[i]["risk_category"]
            IN IF IsNull(x) THEN IsNull(c)
               ELSE /\ ~IsNull(c) /\ c[1] \in 1..Len(Labels)
                    /\ (Labels[c[1]] = "Tres Bas") <=> QLeq(x, Num(-1))
                    /\ (Labels[c[1]] = "Bas") <=> (QLess(Num(-1), x) /\ QLeq(x, Num(0)))
                    /\ (Labels[c[1]] = "Modere") <=> (QLess(Num(0), x) /\ QLeq(x, Num(1)))
                    /\ (Labels[c[1]] = "Eleve") <=> QLess(Num(1), x)
       /\ \A i, j \in 1..Len(features.rows) :
            LET xi == features.rows[i]["risk_index"]
                xj == features.rows[j]["risk_index"]
            IN (~IsNull(xi) /\ ~IsNull(xj) /\ QLeq(xi, xj))
               => features.rows[i]["risk_category"][1] <= features.rows[j]["risk_category"][1]

\* C8: a scored table with a row at exactly -1 in the first category and a row
\* at exactly 1 in the third.
C8_Witness ==
    /\ Scored
    /\ \E i \in 1..Len(features.rows) :
          /\ features.rows[i]["risk_index"] = Num(-1)
          /\ features.rows[i]["risk_category"] = Num(1)
    /\ \E i \in 1..Len(features.rows) :
          /\ features.rows[i]["risk_index"] = Num(1)
          /\ features.rows[i]["risk_category"] = Num(3)

-----------------------------------------------------------------------------
(* The Risk Scorer and the table of its caller *)

\* C11: calculate_risk_metrics leaves the table it was passed as it was,
\* columns and values, whether it succeeds or fails; it sets nothing but the
\* table it returns and the risk file.
C11_FeatureTableReadOnly ==
    [][calculate_risk_metrics
       => /\ features' = features
          /\ UNCHANGED <<files, writable, features_csv, monitoring_data, weather_data,
                         soil_data, yield_history, patterns>>]_vars

-----------------------------------------------------------------------------
(* The feature file under any sequence of calls *)

\* the stages that run before the Temporal Analyzer
StageNames == {"load_data", "clean_data", "meteo_data_hourly_to_daily", "prepare_features"}

\* the feature file an earlier run of the main script left
EarlierFeatures ==
    PrepareFeatures(DefaultMonitoring, CleanTable(DefaultWeather), DefaultSoil,
                    DefaultYield, TRUE, Missing).csv

\* the input files with the k-th one missing (k = 0: none)
FilesWithout(k, yi) ==
    LET fs == [DefaultFiles EXCEPT !["yield"] = yi]
    IN IF k = 0 THEN fs ELSE [fs EXCEPT ![FileOrder[k]] = Missing]

\* Up to MaxCalls calls of the four stages in any order, then
\* get_temporal_patterns; one input file missing or none; the feature file
\* absent or left by an earlier run, writable or not.
InitSequences ==
    \E n \in 0..MaxCalls :
      \E q \in [1..n -> StageNames] :
        \E k \in 0..Len(FileOrder), yi \in {DefaultYield, YieldNoKey}, w \in BOOLEAN,
           csv \in {Missing, EarlierFeatures} :
            Start(FilesWithout(k, yi), w, csv, q \o <<"get_temporal_patterns">>)

SpecSequences == InitSequences /\ [][NextTemporal]_vars

\* a table as prepare_features returns it: every join has been made and the
\* columns the joins doubled are collapsed
Complete(t) ==
    /\ {Rad, "ph", "matiere_organique"} \subseteq t.cols
    /\ t.cols \cap {"latitude_x", "latitude_y", "culture_x", "culture_y"} = {}

\* the last call was get_temporal_patterns, and the one before it a
\* prepare_features that returned None
ReadAfterFailure ==
    /\ JustRan("get_temporal_patterns")
    /\ pc > 2
    /\ script[pc - 2] = "prepare_features"
    /\ features = None

\* C12: a prepare_features call that returns None leaves the feature file as
\* it was, and one that returns a table leaves that table in the file; no other
\* stage writes the file; so the file is always absent, an earlier run's table
\* or a complete table, never a partially built one, and get_temporal_patterns
\* after a call that returned None computes from the file as that call found it.
C12_FileOnlyFromReturnedTable ==
    /\ [][prepare_features
          => IF features' = None THEN features_csv' = features_csv
             ELSE features_csv' = to_csv(features')]_vars
    /\ [][(load_data \/ clean_data \/ meteo_data_hourly_to_daily \/ get_temporal_patterns)
          => features_csv' = features_csv]_vars
    /\ [](features_csv \in {Missing, EarlierFeatures} \/ Complete(features_csv))
    /\ [](ReadAfterFailure
          => \E twoCycles \in BOOLEAN :
                patterns = GetTemporalPatterns(features_csv, MainParcel, twoCycles))

\* C12: the soil join raised after the as-of table was built, prepare_features
\* returned None, the file still holds the earlier run's table, and
\* get_temporal_patterns has read it.
C12_Witness ==
    /\ ReadAfterFailure
    /\ failed_step = {"soil"}
    /\ writable
    /\ features_csv = EarlierFeatures

====
